---- MODULE Spec2Model ----
(***************************************************************************)
(* Live TLS credential manager of handletec/listener.                      *)
(*                                                                         *)
(* Two managers share the model: TLSConfigBuilder (tlsconfigbuilder.go)    *)
(* and the TLS type with GetTLSConfig (unnamed/part_002).  The variable    *)
(* kind says which of the two a behaviour is about.  Caller goroutines run *)
(* the public methods step by step, one monitor goroutine per fsnotify     *)
(* watcher runs the select loop, and the environment replaces the          *)
(* certificate and key files on disk.                                      *)
(***************************************************************************)
EXTENDS Integers, Sequences, FiniteSets, TLC

\* ---------------------------------------------------------------- bounds
MaxVer == 2        \* file versions written to disk: 1..MaxVer
MaxWatchers == 2   \* fsnotify watchers the OS hands out before NewWatcher fails
MaxEvents == 1     \* events pending on one watcher's Events channel
NumCallers == 2    \* goroutines calling the manager's methods
MaxAnchors == 2    \* distinct CA certificates offered to the pool
MaxBlocks == 2     \* PEM blocks in one buffer given to AddCABytes
MaxEntries == 3    \* entries of a CA directory
MaxTouches == 1    \* events on the watched directory that replace neither file

Callers == 1..NumCallers
Watchers == 1..MaxWatchers

\* ---------------------------------------------------------------- values
CertPath == "app.crt"
KeyPath == "app.key"

\* A second pair of files, in place from the start and never replaced.
AltCertPath == "alt.crt"
AltKeyPath == "alt.key"

\* A file's content is a rank: version v takes the ranks 3(v-1) .. 3(v-1)+2,
\* in the order "removed before v arrives", "v partially written", "v".
Missing == 0
Malformed == 1
Valid == 2
MaxRank == 3 * MaxVer - 1
Contents == 0..MaxRank
ContentKind(r) == r % 3
ContentVer(r) == (r \div 3) + 1

\* The nil *tls.Certificate / the empty atomic.Value.
Nil == [cert |-> 0, key |-> 0]

\* Channels: NilChan is a nil channel, CtorChan the channel made by
\* NewTLSConfigBuilder; TLS.startWatcher makes channel w for watcher w.
NilChan == -1
CtorChan == 0

NoMon == [pc |-> "none", q |-> <<>>, rdc |-> 0, pair |-> Nil, dch |-> NilChan]
\* The trust pool is one object, made by the constructor; a configuration
\* holds a pointer to it (PoolRef) or none (NilPool).
NilPool == "nil"
PoolRef == "t.ca"
Anchors == 1..MaxAnchors

\* tls.VersionTLS12 and the largest tls.ClientAuthType.
VersionTLS12 == 771
RequireAndVerifyClientCert == 4

\* The zero tls.Config.
NoCfg == [certs |-> <<>>, auth |-> 0, clientCAs |-> NilPool, rootCAs |-> NilPool,
          minVersion |-> 0, insecure |-> FALSE]
\* What os.ReadFile finds at a CA file's path, and what os.ReadDir finds at
\* a directory's path (entries: name, regular or not, the file behind it).
NoFile == [readable |-> FALSE, pemData |-> <<>>]
NoDir == [readable |-> FALSE, entries |-> <<>>]
NoProbe == [enc |-> "DER", certs |-> <<>>]

NoArg == [skip |-> FALSE, auth |-> 0, pemData |-> <<>>, path |-> "", file |-> NoFile,
          dir |-> NoDir, probe |-> NoProbe, str |-> ""]
IdleCaller == [pc |-> "idle", op |-> "none", res |-> "ok", cfg |-> NoCfg,
               rdc |-> 0, pair |-> Nil, arg |-> NoArg, errAt |-> ""]

VARIABLES
    kind,      \* "builder" (TLSConfigBuilder) or "tls" (TLS)
    certFile,  \* t.certFile
    keyFile,   \* t.keyFile
    cert,      \* t.cert, the atomic.Value holding *tls.Certificate
    watcher,   \* t.watcher: 0 is nil, else the watcher's id
    done,      \* t.done: the channel the field points to
    closed,    \* the channels that have been closed
    mon,       \* per watcher: its Events queue and its goroutine
    callers,   \* per caller goroutine: position, locals, what its call returned
    disk,      \* content of the certificate and key files; other events so far
    hs,        \* last server handshake: certificate served, cell at that time
    ca,        \* the certificates in the pool t.ca points to
    clientAuth, \* t.clientAuth (TLS: t.at)
    insecure,  \* t.insecure
    issued,    \* a configuration the application kept from an earlier call
    ctor       \* the constructor call: its flag, what the platform gave, its outcome

vars == <<kind, certFile, keyFile, cert, watcher, done, closed, mon, callers,
          disk, hs, ca, clientAuth, insecure, issued, ctor>>

\* ------------------------------------------------------- pure operations

\* tls.X509KeyPair succeeds: both PEM inputs parse and the private key
\* belongs to the leaf certificate's public key.
KeyPairAnyKey(c, k) ==
    ContentKind(c) = Valid /\ ContentKind(k) = Valid

KeyPairOK(c, k) ==
    /\ ContentKind(c) = Valid
    /\ ContentKind(k) = Valid
    /\ ContentVer(c) = ContentVer(k)

\* The tls.Certificate X509KeyPair builds.
KeyPair(c, k) == [cert |-> ContentVer(c), key |-> ContentVer(k)]

\* tls.X509KeyPair: the certificate, or Nil with an error.
X509KeyPair(c, k) == IF KeyPairOK(c, k) THEN KeyPair(c, k) ELSE Nil

\* atomic.Value.Store: the cell holds the new pointer, whole.
TornStore(old, new) == [cert |-> new.cert, key |-> old.key]

Store(old, new) == new

\* reloadCert / SetCertKeyFromBytes with the cell at old and the outcome
\* pair of X509KeyPair: the value the cell holds afterwards.
ReloadClears(old, pair) ==
    IF pair # Nil THEN Store(old, pair) ELSE Nil

ReloadCert(old, pair) ==
    IF pair # Nil THEN Store(old, pair) ELSE old

\* cfg.Certificates = []tls.Certificate{*cert} when the cell is not empty.
Certificates(cell) == IF cell = Nil THEN <<>> ELSE <<cell>>

\* FileExists: os.Stat succeeds (directories are not modelled).
PathAlwaysExists(r) == TRUE

FileExists(r) == ContentKind(r) # Missing

\* What a read of the file at path finds: the two replaceable files, the
\* second pair (a valid pair of its own, version MaxVer + 1), or nothing.
AltContent == 3 * MaxVer + Valid

ReadFile(path) ==
    IF path = CertPath THEN disk.cert
    ELSE IF path = KeyPath THEN disk.key
    ELSE IF path \in {AltCertPath, AltKeyPath} THEN AltContent
    ELSE Missing

\* TLSClientAuth.AuthType: the policy itself, or none for an unknown value.
AuthTypeAsGiven(tca) == tca

AuthType(tca) ==
    IF tca < 0 \/ tca > RequireAndVerifyClientCert THEN 0 ELSE tca

\* TLSClientAuth.String: the name at the policy's index, or the first name
\* for an index outside the slice (Go indexes from 0, a sequence from 1).
tcaName == <<"none", "request", "require", "verify", "requireverify">>
String(tca) ==
    IF tca < 0 \/ tca >= Len(tcaName) THEN tcaName[0 + 1] ELSE tcaName[tca + 1]

\* TLSClientAuth values a program can hold: the five constants and the
\* integers next to them on either side.
Policies == -2..(RequireAndVerifyClientCert + 2)

\* The documented switch from the configured string to the call of
\* SetClientAuthType: the policy it sets, or -1 for its default branch.
ClientAuthStrings == {"none", "request", "require", "verify", "requireverify", "bogus"}
ClientAuthOf(str) ==
    CASE str = "none" -> 0
      [] str = "request" -> 1
      [] str = "require" -> 2
      [] str = "verify" -> 3
      [] str = "requireverify" -> RequireAndVerifyClientCert
      [] OTHER -> -1

\* The tls.Config ForServer builds before the certificate is injected
\* (GetTLSConfig of the TLS type sets RootCAs too).
NoAuthCfg(auth) ==
    [NoCfg EXCEPT !.clientCAs = PoolRef,
                  !.rootCAs = IF kind = "tls" THEN PoolRef ELSE NilPool,
                  !.minVersion = VersionTLS12]

ServerCfg(auth) ==
    [NoCfg EXCEPT !.auth = AuthType(auth),
                  !.clientCAs = PoolRef,
                  !.rootCAs = IF kind = "tls" THEN PoolRef ELSE NilPool,
                  !.minVersion = VersionTLS12]

\* The tls.Config ForClient builds and injectClientCert completes.
SkipsVerify(skip, cell) ==
    [NoCfg EXCEPT !.rootCAs = PoolRef,
                  !.minVersion = VersionTLS12,
                  !.insecure = TRUE,
                  !.certs = Certificates(cell)]

ClientCfg(skip, cell) ==
    [NoCfg EXCEPT !.rootCAs = PoolRef,
                  !.minVersion = VersionTLS12,
                  !.insecure = skip,
                  !.certs = Certificates(cell)]

\* The certificates a configuration verifies against: those in the pool its
\* ClientCAs / RootCAs pointer leads to, at the time of the verification.
PoolAt(ref) == IF ref = PoolRef THEN ca ELSE {}

\* A PEM buffer is a sequence of blocks; der = 0 is a CERTIFICATE block
\* whose bytes do not parse.
BlockSet == [type : {"CERTIFICATE", "OTHER"}, der : 0..MaxAnchors]
RECURSIVE SeqsUpTo(_, _)
SeqsUpTo(S, n) ==
    IF n = 0 THEN {<<>>}
    ELSE LET shorter == SeqsUpTo(S, n - 1) IN
         shorter \cup {Append(q, x) : q \in {r \in shorter : Len(r) = n - 1}, x \in S}
PemBuffers == SeqsUpTo(BlockSet, MaxBlocks)

\* TLSConfigBuilder.AddCABytes's loop: the pool after the buffer, and
\* whether it ended in the parse error.
RECURSIVE AddBlocks(_, _)
AddBlocks(pool, pemData) ==
    IF pemData = <<>> THEN [pool |-> pool, err |-> FALSE]
    ELSE IF Head(pemData).type # "CERTIFICATE" THEN AddBlocks(pool, Tail(pemData))
    ELSE IF Head(pemData).der = 0 THEN [pool |-> pool, err |-> TRUE]
    ELSE AddBlocks(pool \cup {Head(pemData).der}, Tail(pemData))

\* x509.CertPool.AppendCertsFromPEM (TLS.AddCABytes): blocks that are no
\* certificate or do not parse are passed over; ok says a certificate was
\* added.
RECURSIVE AppendCertsFromPEM(_, _, _)
AppendCertsFromPEM(pool, pemData, ok) ==
    IF pemData = <<>> THEN [pool |-> pool, ok |-> ok]
    ELSE IF Head(pemData).type # "CERTIFICATE" \/ Head(pemData).der = 0
         THEN AppendCertsFromPEM(pool, Tail(pemData), ok)
    ELSE AppendCertsFromPEM(pool \cup {Head(pemData).der}, Tail(pemData), TRUE)

\* AddCABytes of the manager at hand.
AddCABytesToFresh(pool, pemData) ==
    [pool |-> AddBlocks({}, pemData).pool, err |-> AddBlocks({}, pemData).err]

AddCABytesTo(pool, pemData) ==
    IF kind = "builder" THEN AddBlocks(pool, pemData)
    ELSE [pool |-> AppendCertsFromPEM(pool, pemData, FALSE).pool,
          err |-> ~AppendCertsFromPEM(pool, pemData, FALSE).ok]

\* File names of a CA directory, with filepath.Ext and strings.ToLower on them.
EntryNames == {"a.crt", "b.PEM", "c.txt", "d.pem"}
Ext(name) ==
    CASE name = "a.crt" -> ".crt"
      [] name = "b.PEM" -> ".PEM"
      [] name = "c.txt" -> ".txt"
      [] name = "d.pem" -> ".pem"
      [] OTHER -> ""
ToLower(ext) ==
    CASE ext = ".PEM" -> ".pem"
      [] ext = ".CRT" -> ".crt"
      [] OTHER -> ext

\* AddCADir's test on an entry's name.
ExtAsWritten(name) == Ext(name) \in {".crt", ".pem"}

CAExt(name) == ToLower(Ext(name)) \in {".crt", ".pem"}

\* filepath.Join(dir, name).
Join(dir, name) == dir \o "/" \o name

\* AddCAFile: the pool after the call, whether it failed, and the path its
\* error names.
AddCAFileTo(pool, path, file) ==
    IF path = "" THEN [pool |-> pool, err |-> FALSE, errAt |-> ""]
    ELSE IF ~file.readable THEN [pool |-> pool, err |-> TRUE, errAt |-> path]
    ELSE LET added == AddCABytesTo(pool, file.pemData) IN
         [pool |-> added.pool,
          err |-> added.err,
          errAt |-> IF added.err /\ kind = "tls" THEN path ELSE ""]

\* AddCADir's loop over the entries os.ReadDir returned.
RECURSIVE LoadsPastFailure(_, _, _)
LoadsPastFailure(pool, dir, entries) ==
    IF entries = <<>> THEN [pool |-> pool, err |-> FALSE, errAt |-> ""]
    ELSE IF ~Head(entries).regular \/ ~CAExt(Head(entries).name)
         THEN LoadsPastFailure(pool, dir, Tail(entries))
    ELSE LoadsPastFailure(AddCAFileTo(pool, Join(dir, Head(entries).name),
                                      Head(entries).file).pool,
                          dir, Tail(entries))

RECURSIVE LoadEntries(_, _, _)
LoadEntries(pool, dir, entries) ==
    IF entries = <<>> THEN [pool |-> pool, err |-> FALSE, errAt |-> ""]
    ELSE IF ~Head(entries).regular \/ ~CAExt(Head(entries).name)
         THEN LoadEntries(pool, dir, Tail(entries))
    ELSE LET path == Join(dir, Head(entries).name)
             loaded == AddCAFileTo(pool, path, Head(entries).file)
         IN IF loaded.err
            THEN [pool |-> loaded.pool, err |-> TRUE, errAt |-> path]
            ELSE LoadEntries(loaded.pool, dir, Tail(entries))

\* AddCADir: nothing for the empty name, the error of os.ReadDir, else the loop.
AddCADirTo(pool, dir, listing) ==
    IF dir = "" THEN [pool |-> pool, err |-> FALSE, errAt |-> ""]
    ELSE IF ~listing.readable THEN [pool |-> pool, err |-> TRUE, errAt |-> dir]
    ELSE LoadEntries(pool, dir, listing.entries)

\* The inputs of the CA calls: buffers of certificate blocks as file
\* contents, directories of up to MaxEntries entries with distinct names.
CAFilePems == {p \in PemBuffers : \A k \in 1..Len(p) : p[k].type = "CERTIFICATE"}
CAFiles == {NoFile} \cup [readable : {TRUE}, pemData : CAFilePems]
DirFiles == {f \in CAFiles : Len(f.pemData) > 1 =>
                                 (f.pemData[1].der # 0 /\ f.pemData[2].der = 0)}
DirEntries == [name : EntryNames, regular : {TRUE}, file : DirFiles]
                  \cup [name : EntryNames, regular : {FALSE}, file : {NoFile}]
Listings ==
    {NoDir} \cup
    [readable : {TRUE},
     entries : {q \in SeqsUpTo(DirEntries, MaxEntries) :
                    \A j, k \in 1..Len(q) : j # k => q[j].name # q[k].name}]

\* x509.ParseCertificates reads DER: of a PEM text it makes an error, of no
\* bytes no certificate.  A certificate is named by the anchor it chains to,
\* 0 for none.
Probes == [enc : {"DER"}, certs : SeqsUpTo(0..MaxAnchors, MaxBlocks)]
              \cup [enc : {"PEM"}, certs : SeqsUpTo(0..MaxAnchors, MaxBlocks) \ {<<>>}]
ParseCertificates(probe) ==
    IF probe.certs = <<>> THEN [err |-> FALSE, certs |-> <<>>]
    ELSE IF probe.enc = "DER" THEN [err |-> FALSE, certs |-> probe.certs]
    ELSE [err |-> TRUE, certs |-> <<>>]

\* VerifyCertTrusted's outcome against the pool.
VerifyCertTrustedIn(pool, probe) ==
    IF ParseCertificates(probe).err THEN "parse cert"
    ELSE IF \E k \in 1..Len(ParseCertificates(probe).certs) :
                ParseCertificates(probe).certs[k] \notin pool
         THEN "cert not trusted"
    ELSE "ok"

\* The event filter of the select loop.
QualifiesAnyFile(ev) == ev.op \in {"Write", "Create", "Rename"}

QualifiesCertOnly(ev) ==
    /\ ev.op \in {"Write", "Create", "Rename"}
    /\ ev.name = certFile

Qualifies(ev) ==
    /\ ev.op \in {"Write", "Create", "Rename"}
    /\ (ev.name = certFile \/ ev.name = keyFile)

\* startWatcher's guard "t.watcher != nil" (TLS: GetTLSConfig's "t.watcher == nil").
NeverStarted(w) == FALSE

WatcherStarted(w) == w # 0

\* Close's select on t.done: "already" when the receive is ready, else "default".
AlwaysDefault(ch) == "default"

CloseSelectCase(ch) == IF ch \in closed THEN "already" ELSE "default"

\* The loop's "case <-t.done" is ready when the channel it waits on is closed.
NeverDone(ch) == FALSE

DoneReady(ch) == ch \in closed

\* Where the goroutine stands at the top of its for loop.  Entering the
\* select statement evaluates t.done: the TLS type assigns that field in
\* startWatcher, so the read is a step of its own ("loop"); no code of
\* TLSConfigBuilder assigns it after the constructor, so there the read
\* yields CtorChan whenever it happens and the goroutine is at "select".
LoopTop(m) ==
    IF kind = "builder"
    THEN [m EXCEPT !.dch = CtorChan, !.pc = "select"]
    ELSE [m EXCEPT !.pc = "loop"]

Live(i) == mon[i].pc \notin {"none", "exited"}
Created == {i \in Watchers : mon[i].pc # "none"}

\* ------------------------------------------------------------------ Init
\* x509.SystemCertPool(): a pool with the platform's anchors (possibly
\* none), a nil pool, or an error.
NoSys == [err |-> FALSE, nil |-> TRUE, anchors |-> {}]
SysOutcomes ==
    [err : {FALSE}, nil : {FALSE}, anchors : SUBSET Anchors]
        \cup {NoSys, [err |-> TRUE, nil |-> TRUE, anchors |-> {}]}

\* NewTLSConfigBuilder / NewTLS: whether a manager is returned, and the
\* certificates of its pool.
NewManager(useSystemCA, sys) ==
    IF useSystemCA
    THEN IF sys.err THEN [res |-> "error", pool |-> {}]
         ELSE IF sys.nil THEN [res |-> "ok", pool |-> {}]
         ELSE [res |-> "ok", pool |-> sys.anchors]
    ELSE [res |-> "ok", pool |-> {}]

\* The state the constructor leaves.
Constructed(useSystemCA, sys) ==
    /\ ctor = [useSystemCA |-> useSystemCA, sys |-> sys,
               res |-> NewManager(useSystemCA, sys).res,
               pool |-> NewManager(useSystemCA, sys).pool]
    /\ kind \in {"builder", "tls"}
    /\ certFile = ""
    /\ keyFile = ""
    /\ cert = Nil
    /\ watcher = 0
    /\ done = IF kind = "builder" THEN CtorChan ELSE NilChan
    /\ closed = {}
    /\ mon = [i \in Watchers |-> NoMon]
    /\ callers = [c \in Callers |-> IdleCaller]
    /\ disk = [cert |-> Valid, key |-> Valid, touched |-> 0]
    /\ hs = [served |-> Nil, cell |-> Nil]
    /\ ca = NewManager(useSystemCA, sys).pool
    /\ clientAuth = 0
    /\ insecure = FALSE
    /\ issued = NoCfg

\* A manager made without the platform's anchors.
Init == Constructed(FALSE, NoSys)

\* A constructor call with either flag, on any platform.
CtorInit == \E useSystemCA \in BOOLEAN, sys \in SysOutcomes : Constructed(useSystemCA, sys)

\* The call op of caller c returns (res "ok" or "error") or panics (res
\* "panic"); cfg is the configuration it returns, NoCfg when it returns none.
\* The caller holds the outcome at "ret" until it goes on.
Return(c, op, res, cfg) ==
    callers' = [callers EXCEPT ![c] = [IdleCaller EXCEPT !.pc = "ret", !.op = op,
                                                         !.res = res, !.cfg = cfg]]

Goto(c, pc) == callers' = [callers EXCEPT ![c].pc = pc]

\* The caller drops the outcome of its last call and is free to call again.
Resume(c) ==
    /\ callers[c].pc = "ret"
    /\ callers' = [callers EXCEPT ![c] = IdleCaller]
    /\ UNCHANGED <<ctor, ca, clientAuth, insecure, issued, kind, certFile, keyFile, cert, watcher, done, closed, mon, disk, hs>>

\* The method a caller inside ForServer / GetTLSConfig is running.
ServerOp == IF kind = "builder" THEN "ForServer" ELSE "GetTLSConfig"

\* ------------------------------------------------------ configuration
SetCertKeyFilePaths(c, certPath, keyPath) ==
    /\ kind = "builder"
    /\ callers[c].pc = "idle"
    /\ IF FileExists(ReadFile(certPath)) /\ FileExists(ReadFile(keyPath))
       THEN /\ certFile' = certPath
            /\ keyFile' = keyPath
            /\ Return(c, "SetCertKeyFile", "ok", NoCfg)
       ELSE /\ UNCHANGED <<ctor, certFile, keyFile>>
            /\ Return(c, "SetCertKeyFile", "error", NoCfg)
    /\ UNCHANGED <<ctor, ca, clientAuth, insecure, issued, kind, cert, watcher, done, closed, mon, disk, hs>>

SetCertKeyFile(c) == SetCertKeyFilePaths(c, CertPath, KeyPath)

SetCertFile(c) ==
    /\ kind = "tls"
    /\ callers[c].pc = "idle"
    /\ IF FileExists(disk.cert)
       THEN certFile' = CertPath /\ Return(c, "SetCertFile", "ok", NoCfg)
       ELSE UNCHANGED certFile /\ Return(c, "SetCertFile", "error", NoCfg)
    /\ UNCHANGED <<ctor, ca, clientAuth, insecure, issued, kind, keyFile, cert, watcher, done, closed, mon, disk, hs>>

SetKeyFile(c) ==
    /\ kind = "tls"
    /\ callers[c].pc = "idle"
    /\ IF FileExists(disk.key)
       THEN keyFile' = KeyPath /\ Return(c, "SetKeyFile", "ok", NoCfg)
       ELSE UNCHANGED keyFile /\ Return(c, "SetKeyFile", "error", NoCfg)
    /\ UNCHANGED <<ctor, ca, clientAuth, insecure, issued, kind, certFile, cert, watcher, done, closed, mon, disk, hs>>

SetCertKeyFromBytes(c, cb, kb) ==
    /\ kind = "builder"
    /\ callers[c].pc = "idle"
    /\ cert' = ReloadCert(cert, X509KeyPair(cb, kb))
    /\ Return(c, "SetCertKeyFromBytes",
              IF X509KeyPair(cb, kb) # Nil THEN "ok" ELSE "error", NoCfg)
    /\ UNCHANGED <<ctor, ca, clientAuth, insecure, issued, kind, certFile, keyFile, watcher, done, closed, mon, disk, hs>>

\* --------------------------------------------- trust and policy
\* The call op of caller c, made with the argument arg, returns.
ReturnArg(c, op, arg) ==
    callers' = [callers EXCEPT ![c] = [IdleCaller EXCEPT !.pc = "ret", !.op = op,
                                                         !.arg = arg]]

SetInsecureSkipVerify(c, skip) ==
    /\ kind = "builder"
    /\ callers[c].pc = "idle"
    /\ insecure' = skip
    /\ ReturnArg(c, "SetInsecureSkipVerify", [NoArg EXCEPT !.skip = skip])
    /\ UNCHANGED <<ctor, ca, clientAuth, issued, kind, certFile, keyFile, cert, watcher,
                   done, closed, mon, disk, hs>>

SetClientAuth(c, auth) ==
    /\ callers[c].pc = "idle"
    /\ clientAuth' = auth
    /\ ReturnArg(c, "SetClientAuth", [NoArg EXCEPT !.auth = auth])
    /\ UNCHANGED <<ctor, ca, insecure, issued, kind, certFile, keyFile, cert, watcher,
                   done, closed, mon, disk, hs>>

\* tca.AuthType() and tca.String() called on a value: the value is kept in
\* arg.auth, the results in cfg.auth and arg.str.
AuthTypeCall(c, tca) ==
    /\ callers[c].pc = "idle"
    /\ callers' = [callers EXCEPT ![c] =
                      [IdleCaller EXCEPT
                          !.pc = "ret", !.op = "AuthType",
                          !.cfg = [NoCfg EXCEPT !.auth = AuthType(tca)],
                          !.arg = [NoArg EXCEPT !.auth = tca]]]
    /\ UNCHANGED <<ctor, ca, clientAuth, insecure, issued, kind, certFile, keyFile, cert,
                   watcher, done, closed, mon, disk, hs>>

StringCall(c, tca) ==
    /\ callers[c].pc = "idle"
    /\ ReturnArg(c, "String", [NoArg EXCEPT !.auth = tca, !.str = String(tca)])
    /\ UNCHANGED <<ctor, ca, clientAuth, insecure, issued, kind, certFile, keyFile, cert,
                   watcher, done, closed, mon, disk, hs>>

\* The application's switch on the configured string, calling
\* TLS.SetClientAuthType or returning its error.
ConfigureClientAuth(c, str) ==
    /\ kind = "tls"
    /\ callers[c].pc = "idle"
    /\ clientAuth' = IF ClientAuthOf(str) = -1 THEN clientAuth ELSE ClientAuthOf(str)
    /\ callers' = [callers EXCEPT ![c] =
                      [IdleCaller EXCEPT
                          !.pc = "ret", !.op = "ConfigureClientAuth",
                          !.res = IF ClientAuthOf(str) = -1 THEN "error" ELSE "ok",
                          !.arg = [NoArg EXCEPT !.str = str]]]
    /\ UNCHANGED <<ctor, ca, insecure, issued, kind, certFile, keyFile, cert, watcher,
                   done, closed, mon, disk, hs>>

\* AddCABytes, under t.mu: every certificate up to the first one that does
\* not parse is added to the pool t.ca points to.
AddCABytes(c, pemData) ==
    /\ callers[c].pc = "idle"
    /\ ca' = AddCABytesTo(ca, pemData).pool
    /\ callers' = [callers EXCEPT ![c] =
                      [IdleCaller EXCEPT
                          !.pc = "ret", !.op = "AddCABytes",
                          !.res = IF AddCABytesTo(ca, pemData).err THEN "error" ELSE "ok",
                          !.arg = [NoArg EXCEPT !.pemData = pemData]]]
    /\ UNCHANGED <<ctor, clientAuth, insecure, issued, kind, certFile, keyFile, cert,
                   watcher, done, closed, mon, disk, hs>>

AddCAFile(c, path, file) ==
    /\ callers[c].pc = "idle"
    /\ ca' = AddCAFileTo(ca, path, file).pool
    /\ callers' = [callers EXCEPT ![c] =
                      [IdleCaller EXCEPT
                          !.pc = "ret", !.op = "AddCAFile",
                          !.res = IF AddCAFileTo(ca, path, file).err THEN "error" ELSE "ok",
                          !.errAt = AddCAFileTo(ca, path, file).errAt,
                          !.arg = [NoArg EXCEPT !.path = path, !.file = file]]]
    /\ UNCHANGED <<ctor, clientAuth, insecure, issued, kind, certFile, keyFile, cert,
                   watcher, done, closed, mon, disk, hs>>

AddCADir(c, dir, listing) ==
    /\ callers[c].pc = "idle"
    /\ LET loaded == AddCADirTo(ca, dir, listing) IN
        /\ ca' = loaded.pool
        /\ callers' = [callers EXCEPT ![c] =
                          [IdleCaller EXCEPT
                              !.pc = "ret", !.op = "AddCADir",
                              !.res = IF loaded.err THEN "error" ELSE "ok",
                              !.errAt = loaded.errAt,
                              !.arg = [NoArg EXCEPT !.path = dir, !.dir = listing]]]
    /\ UNCHANGED <<ctor, clientAuth, insecure, issued, kind, certFile, keyFile, cert,
                   watcher, done, closed, mon, disk, hs>>

\* AddCABytes step by step, for callers that run concurrently.  t.mu is
\* held by the caller that is between Lock and the deferred Unlock.
MuHeld == \E d \in Callers : callers[d].pc \in {"ab_loop", "ab_add"}

\* t.mu.Lock(); pemData is the buffer still to be decoded.
AddCABytesLock(c, pemData) ==
    /\ kind = "builder"
    /\ callers[c].pc = "idle"
    /\ ~MuHeld
    /\ callers' = [callers EXCEPT ![c] =
                      [IdleCaller EXCEPT !.pc = "ab_loop", !.op = "AddCABytes",
                                         !.arg = [NoArg EXCEPT !.pemData = pemData]]]
    /\ UNCHANGED <<ctor, ca, clientAuth, insecure, issued, kind, certFile, keyFile, cert,
                   watcher, done, closed, mon, disk, hs>>

\* pem.Decode and x509.ParseCertificate of the next block: the end of the
\* buffer and the parse error return (and unlock), another block type is
\* passed over, a certificate goes to t.ca.AddCert.
AddCABytesDecode(c) ==
    /\ callers[c].pc = "ab_loop"
    /\ LET pemData == callers[c].arg.pemData IN
       callers' = [callers EXCEPT ![c] =
           IF pemData = <<>>
           THEN [IdleCaller EXCEPT !.pc = "ret", !.op = "AddCABytes"]
           ELSE IF Head(pemData).type # "CERTIFICATE"
           THEN [callers[c] EXCEPT !.arg.pemData = Tail(pemData)]
           ELSE IF Head(pemData).der = 0
           THEN [IdleCaller EXCEPT !.pc = "ret", !.op = "AddCABytes", !.res = "error"]
           ELSE [callers[c] EXCEPT !.pc = "ab_add"]]
    /\ UNCHANGED <<ctor, ca, clientAuth, insecure, issued, kind, certFile, keyFile, cert,
                   watcher, done, closed, mon, disk, hs>>

\* t.ca.AddCert(cert) completes; pemData = rest.
AddCert(c) ==
    /\ callers[c].pc = "ab_add"
    /\ ca' = ca \cup {Head(callers[c].arg.pemData).der}
    /\ callers' = [callers EXCEPT ![c].arg.pemData = Tail(@), ![c].pc = "ab_loop"]
    /\ UNCHANGED <<ctor, clientAuth, insecure, issued, kind, certFile, keyFile, cert,
                   watcher, done, closed, mon, disk, hs>>

\* VerifyCertTrusted takes no lock.  While another goroutine is inside
\* CertPool.AddCert the read of the pool's maps races with the write: the
\* call may succeed, fail, or the runtime may stop the program.
VerifyOutcomes(pool, probe) ==
    IF \E d \in Callers : callers[d].pc = "ab_add"
    THEN {"ok", "cert not trusted", "parse cert", "fatal"}
    ELSE {VerifyCertTrustedIn(pool, probe)}

VerifyCertTrusted(c, probe) ==
    /\ kind = "builder"
    /\ callers[c].pc = "idle"
    /\ \E out \in VerifyOutcomes(ca, probe) :
         callers' = [callers EXCEPT ![c] =
                      [IdleCaller EXCEPT
                          !.pc = "ret", !.op = "VerifyCertTrusted",
                          !.res = CASE out = "ok" -> "ok"
                                    [] out = "fatal" -> "panic"
                                    [] OTHER -> "error",
                          !.errAt = IF out = "ok" THEN "" ELSE out,
                          !.arg = [NoArg EXCEPT !.probe = probe]]]
    /\ UNCHANGED <<ctor, ca, clientAuth, insecure, issued, kind, certFile, keyFile, cert,
                   watcher, done, closed, mon, disk, hs>>

\* The application keeps the configuration its call returned.
Keep(c) ==
    /\ callers[c].pc = "ret"
    /\ callers[c].op \in {ServerOp, "ForClient"}
    /\ callers[c].res = "ok"
    /\ issued' = callers[c].cfg
    /\ callers' = [callers EXCEPT ![c] = IdleCaller]
    /\ UNCHANGED <<ctor, ca, clientAuth, insecure, kind, certFile, keyFile, cert, watcher,
                   done, closed, mon, disk, hs>>

\* ------------------------------------------- ForServer / GetTLSConfig
ForServerBegin(c) ==
    /\ kind = "builder"
    /\ callers[c].pc = "idle"
    /\ callers' = [callers EXCEPT
                      ![c].cfg = ServerCfg(clientAuth),
                      ![c].pc = IF cert = Nil /\ certFile # "" /\ keyFile # ""
                                THEN "rc_cert" ELSE "fs_load"]
    /\ UNCHANGED <<ctor, ca, clientAuth, insecure, issued, kind, certFile, keyFile, cert, watcher, done, closed, mon, disk, hs>>

GetTLSConfigBegin(c) ==
    /\ kind = "tls"
    /\ callers[c].pc = "idle"
    /\ IF certFile # "" /\ keyFile # ""
       THEN callers' = [callers EXCEPT
                          ![c].cfg = ServerCfg(clientAuth),
                          ![c].pc = IF cert = Nil THEN "rc_cert" ELSE "fs_load"]
       ELSE Return(c, "GetTLSConfig", "ok", NoCfg)
    /\ UNCHANGED <<ctor, ca, clientAuth, insecure, issued, kind, certFile, keyFile, cert, watcher, done, closed, mon, disk, hs>>

\* tls.LoadX509KeyPair reads the certificate file, then the key file, and
\* pairs the two with X509KeyPair.
ReadCertFile(c) ==
    /\ callers[c].pc = "rc_cert"
    /\ callers' = [callers EXCEPT ![c].rdc = ReadFile(certFile), ![c].pc = "rc_key"]
    /\ UNCHANGED <<ctor, ca, clientAuth, insecure, issued, kind, certFile, keyFile, cert, watcher, done, closed, mon, disk, hs>>

ReadKeyFile(c) ==
    /\ callers[c].pc = "rc_key"
    /\ callers' = [callers EXCEPT ![c].pair = X509KeyPair(callers[c].rdc, ReadFile(keyFile)),
                                  ![c].rdc = 0, ![c].pc = "rc_pair"]
    /\ UNCHANGED <<ctor, ca, clientAuth, insecure, issued, kind, certFile, keyFile, cert, watcher, done, closed, mon, disk, hs>>

\* The initial load stores the pair it built, or panics on the error.
InitialLoadSwallows(c) ==
    /\ callers[c].pc = "rc_pair"
    /\ cert' = ReloadCert(cert, callers[c].pair)
    /\ callers' = [callers EXCEPT ![c].pair = Nil, ![c].pc = "fs_load"]
    /\ UNCHANGED <<ctor, ca, clientAuth, insecure, issued, kind, certFile, keyFile, watcher, done, closed, mon, disk, hs>>

InitialLoad(c) ==
    /\ callers[c].pc = "rc_pair"
    /\ cert' = ReloadCert(cert, callers[c].pair)
    /\ IF callers[c].pair # Nil
       THEN callers' = [callers EXCEPT ![c].pair = Nil, ![c].pc = "fs_load"]
       ELSE Return(c, ServerOp, "panic", NoCfg)
    /\ UNCHANGED <<ctor, ca, clientAuth, insecure, issued, kind, certFile, keyFile, watcher, done, closed, mon, disk, hs>>

\* t.cert.Load() and the copy into cfg.Certificates.
LoadCellCached(c) ==
    /\ callers[c].pc = "fs_load"
    /\ IF cert # Nil
       THEN callers' = [callers EXCEPT
                          ![c].cfg.certs = IF issued.certs # <<>> THEN issued.certs
                                           ELSE Certificates(cert),
                          ![c].pc = "sw_check"]
       ELSE IF kind = "builder"
            THEN Return(c, ServerOp, "ok", callers[c].cfg)
            ELSE Return(c, ServerOp, "panic", NoCfg)
    /\ UNCHANGED <<ctor, ca, clientAuth, insecure, issued, kind, certFile, keyFile, cert,
                   watcher, done, closed, mon, disk, hs>>

LoadCell(c) ==
    /\ callers[c].pc = "fs_load"
    /\ IF cert # Nil
       THEN callers' = [callers EXCEPT ![c].cfg.certs = Certificates(cert),
                                       ![c].pc = "sw_check"]
       ELSE IF kind = "builder"
            THEN Return(c, ServerOp, "ok", callers[c].cfg)
            ELSE Return(c, ServerOp, "panic", NoCfg)
    /\ UNCHANGED <<ctor, ca, clientAuth, insecure, issued, kind, certFile, keyFile, cert, watcher, done, closed, mon, disk, hs>>

CheckWatcher(c) ==
    /\ callers[c].pc = "sw_check"
    /\ IF WatcherStarted(watcher)
       THEN Return(c, ServerOp, "ok", callers[c].cfg)
       ELSE Goto(c, "sw_new")
    /\ UNCHANGED <<ctor, ca, clientAuth, insecure, issued, kind, certFile, keyFile, cert, watcher, done, closed, mon, disk, hs>>

\* fsnotify.NewWatcher fails: the error is printed and the call returns.
NewWatcherPanics(c) ==
    /\ callers[c].pc = "sw_new"
    /\ Return(c, ServerOp, "panic", NoCfg)
    /\ UNCHANGED <<ctor, ca, clientAuth, insecure, issued, kind, certFile, keyFile, cert, watcher, done, closed, mon, disk, hs>>

NewWatcherFails(c) ==
    /\ callers[c].pc = "sw_new"
    /\ Return(c, ServerOp, "ok", callers[c].cfg)
    /\ UNCHANGED <<ctor, ca, clientAuth, insecure, issued, kind, certFile, keyFile, cert, watcher, done, closed, mon, disk, hs>>

\* fsnotify.NewWatcher succeeds: t.watcher = w, (TLS: t.done = make(chan)),
\* the directories are added and the goroutine is started.
NewWatcherStarts(c) ==
    /\ callers[c].pc = "sw_new"
    /\ Cardinality(Created) < MaxWatchers
    /\ LET w == Cardinality(Created) + 1 IN
        /\ watcher' = w
        /\ done' = IF kind = "tls" THEN w ELSE done
        /\ mon' = [mon EXCEPT ![w] = LoopTop(NoMon)]
    /\ Return(c, ServerOp, "ok", callers[c].cfg)
    /\ UNCHANGED <<ctor, ca, clientAuth, insecure, issued, kind, certFile, keyFile, cert, closed, disk, hs>>

\* ---------------------------------------------------------- ForClient
ForClientLoads(c) ==
    /\ kind = "builder"
    /\ callers[c].pc = "idle"
    /\ cert' = IF cert = Nil /\ certFile # "" /\ keyFile # ""
               THEN ReloadCert(cert, X509KeyPair(ReadFile(certFile), ReadFile(keyFile)))
               ELSE cert
    /\ Return(c, "ForClient", "ok", ClientCfg(insecure, cert'))
    /\ UNCHANGED <<ctor, ca, clientAuth, insecure, issued, kind, certFile, keyFile, watcher, done, closed, mon, disk, hs>>

ForClient(c) ==
    /\ kind = "builder"
    /\ callers[c].pc = "idle"
    /\ Return(c, "ForClient", "ok", ClientCfg(insecure, cert))
    /\ UNCHANGED <<ctor, ca, clientAuth, insecure, issued, kind, certFile, keyFile, cert, watcher, done, closed, mon, disk, hs>>

\* -------------------------------------------------------------- Close
CloseBegin(c) ==
    /\ callers[c].pc = "idle"
    /\ IF watcher = 0
       THEN Return(c, "Close", "ok", NoCfg)
       ELSE Goto(c, "cl_select")
    /\ UNCHANGED <<ctor, ca, clientAuth, insecure, issued, kind, certFile, keyFile, cert, watcher, done, closed, mon, disk, hs>>

CloseSelect(c) ==
    /\ callers[c].pc = "cl_select"
    /\ IF CloseSelectCase(done) = "already"
       THEN Goto(c, "cl_nil")
       ELSE Goto(c, "cl_close")
    /\ UNCHANGED <<ctor, ca, clientAuth, insecure, issued, kind, certFile, keyFile, cert, watcher, done, closed, mon, disk, hs>>

\* close(t.done): closing a closed or nil channel panics.
CloseDone(c) ==
    /\ callers[c].pc = "cl_close"
    /\ IF done \in closed \/ done = NilChan
       THEN Return(c, "Close", "panic", NoCfg) /\ UNCHANGED closed
       ELSE Goto(c, "cl_nil") /\ closed' = closed \cup {done}
    /\ UNCHANGED <<ctor, ca, clientAuth, insecure, issued, kind, certFile, keyFile, cert, watcher, done, mon, disk, hs>>

\* t.watcher = nil ends Close; the cell is not touched.
CloseRetracts(c) ==
    /\ callers[c].pc = "cl_nil"
    /\ watcher' = 0
    /\ cert' = Nil
    /\ Return(c, "Close", "ok", NoCfg)
    /\ UNCHANGED <<ctor, ca, clientAuth, insecure, issued, kind, certFile, keyFile, done,
                   closed, mon, disk, hs>>

CloseNil(c) ==
    /\ callers[c].pc = "cl_nil"
    /\ watcher' = 0
    /\ Return(c, "Close", "ok", NoCfg)
    /\ UNCHANGED <<ctor, ca, clientAuth, insecure, issued, kind, certFile, keyFile, cert, done, closed, mon, disk, hs>>

\* ---------------------------------------------------------- handshake
\* A server built on the configuration a caller holds from ForServer serves
\* cfg.Certificates[0]: the configuration sets no GetCertificate.
Handshake(c) ==
    /\ callers[c].pc = "ret"
    /\ callers[c].op = ServerOp
    /\ callers[c].cfg.certs # <<>>
    /\ hs' = [served |-> callers[c].cfg.certs[1], cell |-> cert]
    /\ UNCHANGED <<ctor, ca, clientAuth, insecure, issued, kind, certFile, keyFile, cert, watcher, done, closed, mon,
                   callers, disk>>

\* -------------------------------------------------------- environment
FileOp(old, new) ==
    IF ContentKind(new) = Missing THEN "Remove"
    ELSE IF ContentKind(old) = Missing THEN "Create"
    ELSE "Write"

Deliver(m, name, op) ==
    IF m.pc \in {"none", "exited"} THEN m
    ELSE [m EXCEPT !.q = Append(@, [name |-> name, op |-> op])]

\* The file f is replaced by content r; every open watcher gets the event.
FsWrite(f, r) ==
    /\ r > disk[f]
    /\ \A i \in Watchers : Live(i) => Len(mon[i].q) < MaxEvents
    /\ disk' = [disk EXCEPT ![f] = r]
    /\ mon' = [i \in Watchers |->
                 Deliver(mon[i], IF f = "cert" THEN CertPath ELSE KeyPath,
                         FileOp(disk[f], r))]
    /\ UNCHANGED <<ctor, ca, clientAuth, insecure, issued, kind, certFile, keyFile, cert, watcher, done, closed, callers, hs>>

\* Another file of the watched directory is written, created, renamed,
\* removed or has its mode changed, or the mode of the certificate or key
\* file is changed: every open watcher gets the event, the files' contents
\* stay.
OtherPath == "other.txt"
TouchEvents ==
    [name : {OtherPath}, op : {"Write", "Create", "Rename", "Remove", "Chmod"}]
        \cup [name : {CertPath, KeyPath}, op : {"Chmod"}]
FsTouch(ev) ==
    /\ disk.touched < MaxTouches
    /\ \E i \in Watchers : Live(i)
    /\ \A i \in Watchers : Live(i) => Len(mon[i].q) < MaxEvents
    /\ disk' = [disk EXCEPT !.touched = @ + 1]
    /\ mon' = [i \in Watchers |-> Deliver(mon[i], ev.name, ev.op)]
    /\ UNCHANGED <<ctor, ca, clientAuth, insecure, issued, kind, certFile, keyFile, cert, watcher, done, closed, callers, hs>>

\* ------------------------------------------------ monitor goroutine
\* Entering the select statement evaluates t.done (TLS).
MonEnter(i) ==
    /\ mon[i].pc = "loop"
    /\ mon' = [mon EXCEPT ![i].dch = done, ![i].pc = "select"]
    /\ UNCHANGED <<ctor, ca, clientAuth, insecure, issued, kind, certFile, keyFile, cert, watcher, done, closed, callers, disk, hs>>

\* case ev := <-w.Events
MonEvent(i) ==
    /\ mon[i].pc = "select"
    /\ mon[i].q # <<>>
    /\ mon' = [mon EXCEPT ![i] =
                 IF Qualifies(Head(mon[i].q))
                 THEN [mon[i] EXCEPT !.q = Tail(@), !.pc = "sleep"]
                 ELSE LoopTop([mon[i] EXCEPT !.q = Tail(@)])]
    /\ UNCHANGED <<ctor, ca, clientAuth, insecure, issued, kind, certFile, keyFile, cert, watcher, done, closed, callers, disk, hs>>

\* The debounce sleep ends and LoadX509KeyPair reads the certificate file.
MonWake(i) ==
    /\ mon[i].pc = "sleep"
    /\ mon' = [mon EXCEPT ![i].rdc = ReadFile(certFile), ![i].pc = "rdkey"]
    /\ UNCHANGED <<ctor, ca, clientAuth, insecure, issued, kind, certFile, keyFile, cert, watcher, done, closed, callers, disk, hs>>

MonReadKey(i) ==
    /\ mon[i].pc = "rdkey"
    /\ mon' = [mon EXCEPT ![i].pair = X509KeyPair(mon[i].rdc, ReadFile(keyFile)),
                          ![i].rdc = 0, ![i].pc = "pair"]
    /\ UNCHANGED <<ctor, ca, clientAuth, insecure, issued, kind, certFile, keyFile, cert, watcher, done, closed, callers, disk, hs>>

\* The pair is stored; an error is printed to stderr and nothing is stored.
MonReload(i) ==
    /\ mon[i].pc = "pair"
    /\ cert' = ReloadCert(cert, mon[i].pair)
    /\ mon' = [mon EXCEPT ![i] = LoopTop([mon[i] EXCEPT !.pair = Nil])]
    /\ UNCHANGED <<ctor, ca, clientAuth, insecure, issued, kind, certFile, keyFile, watcher, done, closed, callers, disk, hs>>

\* case <-t.done: return, and the deferred w.Close() closes the watcher.
MonExit(i) ==
    /\ mon[i].pc = "select"
    /\ DoneReady(mon[i].dch)
    /\ mon' = [mon EXCEPT ![i] = [NoMon EXCEPT !.pc = "exited"]]
    /\ UNCHANGED <<ctor, ca, clientAuth, insecure, issued, kind, certFile, keyFile, cert, watcher, done, closed, callers, disk, hs>>

\* ------------------------------------------------------ specifications
CallerStep(c) ==
    \/ SetCertKeyFile(c)
    \/ SetCertFile(c)
    \/ SetKeyFile(c)
    \/ \E cb \in Contents : \E kb \in {cb, Valid} : SetCertKeyFromBytes(c, cb, kb)
    \/ ForServerBegin(c)
    \/ GetTLSConfigBegin(c)
    \/ ReadCertFile(c)
    \/ ReadKeyFile(c)
    \/ InitialLoad(c)
    \/ LoadCell(c)
    \/ CheckWatcher(c)
    \/ NewWatcherFails(c)
    \/ NewWatcherStarts(c)
    \/ ForClient(c)
    \/ CloseBegin(c)
    \/ CloseSelect(c)
    \/ CloseDone(c)
    \/ CloseNil(c)
    \/ Resume(c)

EnvStep == \E f \in {"cert", "key"}, r \in Contents : FsWrite(f, r)

MonStep(i) ==
    \/ MonEnter(i)
    \/ MonEvent(i)
    \/ MonWake(i)
    \/ MonReadKey(i)
    \/ MonReload(i)
    \/ MonExit(i)

Next ==
    \/ \E c \in Callers : CallerStep(c)
    \/ EnvStep
    \/ \E i \in Watchers : MonStep(i)

\* Any interleaving of the callers, the monitors and the environment.
Spec == Init /\ [][Next]_vars

\* One caller: the manager's methods are called one after the other.
SeqNext ==
    \/ CallerStep(1)
    \/ EnvStep
    \/ \E i \in Watchers : MonStep(i)

SeqSpec == Init /\ [][SeqNext]_vars

\* TLSConfigBuilder with its callers racing: configuration, ForServer and
\* ForClient from every caller, against the monitors and the environment.
RaceCaller(c) ==
    \/ SetCertKeyFile(c)
    \/ \E cb \in Contents : \E kb \in {cb, Valid} : SetCertKeyFromBytes(c, cb, kb)
    \/ ForServerBegin(c)
    \/ ReadCertFile(c)
    \/ ReadKeyFile(c)
    \/ InitialLoad(c)
    \/ LoadCell(c)
    \/ CheckWatcher(c)
    \/ NewWatcherFails(c)
    \/ NewWatcherStarts(c)
    \/ ForClient(c)
    \/ Resume(c)

\* The builder's goroutine while nothing closes the done channel.
RaceMon(i) ==
    \/ MonEvent(i)
    \/ MonWake(i)
    \/ MonReadKey(i)
    \/ MonReload(i)

RaceNext ==
    \/ \E c \in Callers : RaceCaller(c)
    \/ EnvStep
    \/ \E i \in Watchers : RaceMon(i)

RaceInit == Init /\ kind = "builder"

RaceSpec == RaceInit /\ [][RaceNext]_vars

\* Sequential calls, and a server that handshakes on the configuration it holds.
HsNext ==
    \/ SeqNext
    \/ Handshake(1)

HsSpec == Init /\ [][HsNext]_vars

\* Sequential calls, and every monitor goroutine that can run does run.
FairSpec == Init /\ [][SeqNext]_vars /\ \A i \in Watchers : WF_vars(MonStep(i))

\* TLSConfigBuilder, calls made one after the other, with the trust pool,
\* the client-auth policy and the skip-verification flag being configured
\* between them, and the application keeping configurations it was given.
\* No file is replaced, so a monitor goroutine has nothing to do but exit.
ConfigCaller(c) ==
    \/ SetCertKeyFile(c)
    \/ \E cb \in {r \in Contents : ContentKind(r) = Valid} : SetCertKeyFromBytes(c, cb, cb)
    \/ ForServerBegin(c)
    \/ ReadCertFile(c)
    \/ ReadKeyFile(c)
    \/ InitialLoad(c)
    \/ LoadCell(c)
    \/ CheckWatcher(c)
    \/ NewWatcherFails(c)
    \/ NewWatcherStarts(c)
    \/ ForClient(c)
    \/ \E pemData \in CAFilePems : AddCABytes(c, pemData)
    \/ \E auth \in -1..(RequireAndVerifyClientCert + 1) : SetClientAuth(c, auth)
    \/ \E skip \in BOOLEAN : SetInsecureSkipVerify(c, skip)
    \/ CloseBegin(c)
    \/ CloseSelect(c)
    \/ CloseDone(c)
    \/ CloseNil(c)
    \/ Keep(c)
    \/ Resume(c)

ConfigNext ==
    \/ ConfigCaller(1)
    \/ \E i \in Watchers : MonExit(i)

ConfigSpec == RaceInit /\ [][ConfigNext]_vars

\* TLSConfigBuilder, calls made one after the other, the paths being set to
\* either pair of files, with the monitors and the environment.
PathCaller(c) ==
    \/ \E p \in {<<CertPath, KeyPath>>, <<AltCertPath, AltKeyPath>>} :
           SetCertKeyFilePaths(c, p[1], p[2])
    \/ ForServerBegin(c)
    \/ ReadCertFile(c)
    \/ ReadKeyFile(c)
    \/ InitialLoad(c)
    \/ LoadCell(c)
    \/ CheckWatcher(c)
    \/ NewWatcherFails(c)
    \/ NewWatcherStarts(c)
    \/ ForClient(c)
    \/ Resume(c)

PathNext ==
    \/ PathCaller(1)
    \/ EnvStep
    \/ \E i \in Watchers : RaceMon(i)

PathSpec == RaceInit /\ [][PathNext]_vars

\* TLSConfigBuilder, calls made one after the other, certificates being
\* added to the trust pool between them, with the monitors and the
\* environment.
PoolCaller(c) ==
    \/ SetCertKeyFile(c)
    \/ \E pemData \in CAFilePems : AddCABytes(c, pemData)
    \/ ForServerBegin(c)
    \/ ReadCertFile(c)
    \/ ReadKeyFile(c)
    \/ InitialLoad(c)
    \/ LoadCell(c)
    \/ CheckWatcher(c)
    \/ NewWatcherFails(c)
    \/ NewWatcherStarts(c)
    \/ ForClient(c)
    \/ CloseBegin(c)
    \/ CloseSelect(c)
    \/ CloseDone(c)
    \/ CloseNil(c)
    \/ Resume(c)

PoolNext ==
    \/ PoolCaller(1)
    \/ EnvStep
    \/ \E i \in Watchers : RaceMon(i)
    \/ \E i \in Watchers : MonExit(i)

PoolSpec == RaceInit /\ [][PoolNext]_vars

\* Sequential calls, the monitors, and a directory in which more happens
\* than the replacement of the two files.
FilterNext ==
    \/ SeqNext
    \/ \E ev \in TouchEvents : FsTouch(ev)

FilterSpec == Init /\ [][FilterNext]_vars

\* Either manager, its client-auth policy being set between the calls that
\* return server configurations.
AuthCaller(c) ==
    \/ SetCertKeyFile(c)
    \/ \E auth \in -1..(RequireAndVerifyClientCert + 1) : SetClientAuth(c, auth)
    \/ \E str \in ClientAuthStrings : ConfigureClientAuth(c, str)
    \/ ForServerBegin(c)
    \/ GetTLSConfigBegin(c)
    \/ ReadCertFile(c)
    \/ ReadKeyFile(c)
    \/ InitialLoad(c)
    \/ LoadCell(c)
    \/ CheckWatcher(c)
    \/ NewWatcherFails(c)
    \/ NewWatcherStarts(c)
    \/ Resume(c)

AuthNext == AuthCaller(1)

AuthSpec == Init /\ [][AuthNext]_vars

\* The two methods of TLSClientAuth, called on every value by every caller.
PolicyCaller(c) ==
    \/ \E tca \in Policies : AuthTypeCall(c, tca)
    \/ \E tca \in Policies : StringCall(c, tca)
    \/ Resume(c)

PolicyNext == \E c \in Callers : PolicyCaller(c)

PolicySpec == Init /\ [][PolicyNext]_vars

\* TLSConfigBuilder with its files configured by goroutines that call
\* ForServer, ForClient and Close concurrently, with the monitors and the
\* environment; the cell is filled from the files only.
LoadCaller(c) ==
    \/ SetCertKeyFile(c)
    \/ ForServerBegin(c)
    \/ ReadCertFile(c)
    \/ ReadKeyFile(c)
    \/ InitialLoad(c)
    \/ LoadCell(c)
    \/ CheckWatcher(c)
    \/ NewWatcherFails(c)
    \/ NewWatcherStarts(c)
    \/ ForClient(c)
    \/ CloseBegin(c)
    \/ CloseSelect(c)
    \/ CloseDone(c)
    \/ CloseNil(c)
    \/ Resume(c)

LoadNext ==
    \/ \E c \in Callers : LoadCaller(c)
    \/ EnvStep
    \/ \E i \in Watchers : RaceMon(i)
    \/ \E i \in Watchers : MonExit(i)

LoadSpec == RaceInit /\ [][LoadNext]_vars

\* TLSConfigBuilder, two goroutines adding certificates to the trust pool
\* and verifying certificates against it at the same time.
LockCaller(c) ==
    \/ /\ callers[c].pc = "idle"
       /\ \E pemData \in CAFilePems : AddCABytesLock(c, pemData)
    \/ AddCABytesDecode(c)
    \/ AddCert(c)
    \/ /\ callers[c].pc = "idle"
       /\ \E probe \in Probes : VerifyCertTrusted(c, probe)
    \/ Resume(c)

LockNext == \E c \in Callers : LockCaller(c)

LockSpec == RaceInit /\ [][LockNext]_vars

\* Either manager as its constructor returned it; a manager that was
\* returned has certificates added to its pool and verified against it.
Built == ctor.res = "ok"

CtorCaller(c) ==
    \/ \E pemData \in CAFilePems : Built /\ AddCABytes(c, pemData)
    \/ \E probe \in Probes : Built /\ VerifyCertTrusted(c, probe)
    \/ Built /\ ForClient(c)
    \/ Built /\ Resume(c)

CtorNext == CtorCaller(1)

CtorSpec == CtorInit /\ [][CtorNext]_vars

\* Either manager, its trust pool being filled from buffers, files and
\* directories, and certificates being verified against it.
TrustCaller(c) ==
    \/ \E pemData \in PemBuffers : AddCABytes(c, pemData)
    \/ \E path \in {"", "ca.pem"}, file \in CAFiles : AddCAFile(c, path, file)
    \/ /\ callers[c].pc = "idle"
       /\ \E dir \in {"", "ca"} :
              \E listing \in (IF dir = "" THEN {NoDir} ELSE Listings) :
                  AddCADir(c, dir, listing)
    \/ \E probe \in Probes : VerifyCertTrusted(c, probe)
    \/ Resume(c)

TrustNext == TrustCaller(1)

TrustSpec == Init /\ [][TrustNext]_vars

\* ---------------------------------------------------------------- claims
ValidRank(v) == 3 * (v - 1) + Valid
Cred(v) == [cert |-> v, key |-> v]
WholeCredentials == {Cred(v) : v \in 1..MaxVer}
FilesConfigured == certFile = CertPath /\ keyFile = KeyPath

\* C1: whatever the interleaving of the callers' ForServer, ForClient and
\* SetCertKeyFromBytes calls with the monitors' reloads, a configuration (one
\* being built or one returned) carries at most one credential, and that
\* credential is a value one successful load built: certificate and key of
\* the same load, neither of them empty.
ReturnedCredentialWhole ==
    \A c \in Callers :
        /\ Len(callers[c].cfg.certs) <= 1
        /\ \A k \in DOMAIN callers[c].cfg.certs :
               callers[c].cfg.certs[k] \in WholeCredentials

\* A ForServer call has returned version 2's credential while a monitor is in
\* the middle of a reload and the other caller is in the middle of a call.
ReturnedDuringReload ==
    /\ \E c \in Callers :
        /\ callers[c].pc = "ret"
        /\ callers[c].op = "ForServer"
        /\ callers[c].cfg.certs = <<Cred(2)>>
    /\ \E c \in Callers : callers[c].pc \in {"rc_key", "rc_pair", "fs_load", "sw_new"}
    /\ \E i \in Watchers : mon[i].pc \in {"rdkey", "pair"}

\* C2: in every reachable state the cell is empty or holds a certificate
\* together with the private key that belongs to it.
CellHoldsMatchingPair ==
    \/ cert = Nil
    \/ /\ cert.cert \in 1..MaxVer
       /\ cert.key = cert.cert

\* A monitor's reload has read the replaced certificate while the key file
\* on disk still holds the key of the previous version, the cell being set.
ReloadReadsMixedFiles ==
    \E i \in Watchers :
        /\ mon[i].pc = "rdkey"
        /\ ContentKind(mon[i].rdc) = Valid
        /\ ContentKind(disk.key) = Valid
        /\ ContentVer(mon[i].rdc) > ContentVer(disk.key)
        /\ cert # Nil

\* C3: the step in which a monitor's reload ends in an error leaves the cell
\* as it was and changes no caller (no error, no panic reaches one).
FailedReloadKeepsCell ==
    [][\A i \in Watchers :
          (mon[i].pc = "pair" /\ mon[i].pair = Nil /\ mon'[i].pc # "pair")
              => (cert' = cert /\ callers' = callers)]_vars

\* The load of a monitor's reload has failed while the cell holds a credential.
ReloadFailedWithCellSet ==
    \E i \in Watchers :
        /\ mon[i].pc = "pair"
        /\ mon[i].pair = Nil
        /\ cert # Nil

\* C4: a watching monitor (never closed) that has an event pending for a
\* replaced file, with both files now holding version v, leads to the cell
\* holding version v's credential, unless the files are replaced again or
\* the manager is closed first; and what ForServer reads from the cell is
\* what the configuration it returns carries.
RotationPending(i, v) ==
    /\ disk.cert = ValidRank(v)
    /\ disk.key = ValidRank(v)
    /\ FilesConfigured
    /\ closed = {}
    /\ Live(i)
    /\ \E k \in DOMAIN mon[i].q :
           /\ mon[i].q[k].op \in {"Write", "Create"}
           /\ mon[i].q[k].name \in {CertPath, KeyPath}

RotationReachesCell ==
    /\ \A i \in Watchers : \A v \in 1..MaxVer :
           RotationPending(i, v) ~>
               \/ cert = Cred(v)
               \/ disk.cert # ValidRank(v)
               \/ disk.key # ValidRank(v)
               \/ closed # {}
    /\ [][\A c \in Callers :
             /\ (callers[c].pc = "fs_load" /\ callers'[c].pc # "fs_load" /\ cert # Nil)
                    => callers'[c].cfg.certs = <<cert>>
             /\ (callers[c].pc \in {"sw_check", "sw_new"} /\ callers'[c].pc # "idle")
                    => callers'[c].cfg = callers[c].cfg]_vars

\* Both files hold version 2, the event of the replacement is pending on a
\* watching monitor, and the cell still holds version 1's credential.
RotationAwaitsReload ==
    /\ cert = Cred(1)
    /\ \E i \in Watchers : RotationPending(i, 2)

\* C5: a handshake on a configuration obtained from ForServer serves the
\* credential the cell holds when the handshake begins.
HandshakeServesCell == hs.served = hs.cell

\* C6: when the debounce window of a monitor ends and its reload begins, no
\* qualifying event that arrived inside the window is left pending to cause
\* a reload of its own: the burst costs one reload.
BurstCostsOneReload ==
    [][\A i \in Watchers :
          (mon[i].pc = "sleep" /\ mon'[i].pc = "rdkey")
              => \A k \in DOMAIN mon[i].q : ~Qualifies(mon[i].q[k])]_vars

\* C7: with the calls made one after the other and no Close, at most one
\* watcher (and goroutine) is ever created, the one t.watcher names, and a
\* file event is delivered to at most one Events channel.
StartWatcherOnce ==
    /\ [](closed = {} =>
            /\ Cardinality(Created) <= 1
            /\ (watcher # 0 => Created = {watcher} /\ Live(watcher)))
    /\ [][closed = {} =>
            Cardinality({i \in Watchers : Len(mon'[i].q) > Len(mon[i].q)}) <= 1]_vars

\* A later ForServer / GetTLSConfig call is at startWatcher's guard and finds
\* the watcher an earlier call started.
SecondCallFindsWatcher ==
    /\ callers[1].pc = "sw_check"
    /\ watcher # 0
    /\ closed = {}

\* C8: once Close has closed the done channel, no step creates a watcher or
\* a monitor goroutine.
NoWatcherAfterClose == [][closed # {} => Created' = Created]_vars

\* C9: with the calls made one after the other, Close never panics, and a
\* Close that finds no watcher (never started, or closed already) returns
\* with the manager's state unchanged.
CloseNeverPanics ==
    /\ [](\A c \in Callers :
            ~(callers[c].pc = "ret" /\ callers[c].op = "Close" /\ callers[c].res = "panic"))
    /\ [][\A c \in Callers :
             (callers[c].pc = "idle" /\ callers'[c].pc = "ret" /\ callers'[c].op = "Close")
                 => UNCHANGED <<ctor, certFile, keyFile, cert, watcher, done, closed, mon>>]_vars

\* Close has returned for the second time at least, a ForServer call having
\* started a second watcher in between.
ClosedAgainAfterRestart ==
    /\ callers[1].pc = "ret"
    /\ callers[1].op = "Close"
    /\ callers[1].res = "ok"
    /\ Cardinality(Created) = 2
    /\ watcher = 0

\* C10: once Close has closed the done channel the manager holds, every
\* monitor goroutine that is running eventually returns, which closes its
\* watcher, whatever events are pending.  (The TLS type makes a new channel
\* when GetTLSConfig starts a watcher again: the obligation ends there.)
ClosedMonitorExits ==
    \A i \in Watchers :
        (done \in closed /\ Live(i)) ~> (mon[i].pc = "exited" \/ done \notin closed)

\* The done channel is closed while a monitor goroutine is in its debounce
\* sleep with a further event pending.
ClosedWithEventsPending ==
    \E i \in Watchers :
        /\ done \in closed
        /\ mon[i].pc = "sleep"
        /\ mon[i].q # <<>>

\* C11: once Close has returned (the done channel is closed and t.watcher is
\* nil again), no monitor goroutine begins a reload: none leaves the select
\* statement by the event case into the debounce sleep.
NoReloadBeginsAfterClose ==
    [][\A i \in Watchers :
          (done \in closed /\ watcher = 0 /\ mon[i].pc = "select")
              => mon'[i].pc # "sleep"]_vars

\* C12: no step of a Close call changes the credential cell, and after a
\* Close the cell is still what ForServer / GetTLSConfig and ForClient copy
\* into the configuration they return.
InClose(c) ==
    \/ callers[c].pc \in {"cl_select", "cl_close", "cl_nil"}
    \/ callers[c].pc = "idle" /\ callers'[c].pc = "cl_select"
    \/ callers[c].pc = "idle" /\ callers'[c].pc = "ret" /\ callers'[c].op = "Close"

CloseKeepsCell ==
    [][\A c \in Callers :
          /\ (InClose(c) /\ callers'[c] # callers[c]) => cert' = cert
          /\ (closed # {} /\ cert # Nil /\ callers[c].pc = "fs_load"
                 /\ callers'[c].pc # "fs_load")
                => callers'[c].cfg.certs = <<cert>>
          /\ (closed # {} /\ callers[c].pc = "idle" /\ callers'[c].pc = "ret"
                 /\ callers'[c].op = "ForClient")
                => callers'[c].cfg.certs = Certificates(cert)]_vars

\* After a Close, a reload that was in flight has published version 2's
\* credential and a ForServer / GetTLSConfig call has returned it.
ServedAfterClose ==
    /\ closed # {}
    /\ cert = Cred(2)
    /\ callers[1].pc = "ret"
    /\ callers[1].op = ServerOp
    /\ callers[1].cfg.certs = <<Cred(2)>>

\* C13: a ForServer / GetTLSConfig call on a manager with no credential
\* source (no paths stored, nothing in the cell) does not return: it panics.
NoSourceIsFatal ==
    \A c \in Callers :
        (/\ callers[c].pc = "ret"
         /\ callers[c].op = ServerOp
         /\ certFile = ""
         /\ keyFile = ""
         /\ cert = Nil)
            => callers[c].res = "panic"

\* C14: while no certificate or key path is stored (the credential, if any,
\* came from SetCertKeyFromBytes), no step creates a watcher or a monitor
\* goroutine.
NoWatcherWithoutFiles ==
    [][(certFile = "" /\ keyFile = "") => Created' = Created]_vars

\* C15: the certificates a configuration the application holds verifies
\* against (through ClientCAs and through RootCAs) are the same after every
\* step as before it.
IssuedTrustIsSnapshot ==
    [][issued' = issued =>
          /\ PoolAt(issued.clientCAs)' = PoolAt(issued.clientCAs)
          /\ PoolAt(issued.rootCAs)' = PoolAt(issued.rootCAs)]_vars

\* C16: a SetClientAuth call stores its argument and leaves the policy of
\* the configuration the application holds as it was; every configuration
\* ForServer returns carries the policy in force, as AuthType maps it.
ClientAuthIsSnapshot ==
    /\ [][\A c \in Callers :
             (callers[c].pc = "idle" /\ callers'[c].pc = "ret"
                /\ callers'[c].op = "SetClientAuth")
               => /\ issued'.auth = issued.auth
                  /\ clientAuth' = callers'[c].arg.auth]_vars
    /\ [](\A c \in Callers :
             (callers[c].pc = "ret" /\ callers[c].op = ServerOp /\ callers[c].res = "ok")
                => callers[c].cfg.auth = AuthType(clientAuth))

\* The application holds a ForServer configuration with one policy, and a
\* later ForServer call has returned one with another policy.
PolicyChangedAfterIssue ==
    /\ issued.clientCAs = PoolRef
    /\ issued.auth = 1
    /\ callers[1].pc = "ret"
    /\ callers[1].op = ServerOp
    /\ callers[1].cfg.auth = RequireAndVerifyClientCert

\* C17: with the second pair of paths stored by the latest successful
\* SetCertKeyFile, the credential a ForServer call copies into its
\* configuration is the one loaded from that pair of files.
NewPathsAreServed ==
    [][\A c \in Callers :
          (/\ callers[c].pc = "fs_load"
           /\ callers'[c].pc # "fs_load"
           /\ certFile = AltCertPath
           /\ keyFile = AltKeyPath)
              => callers'[c].cfg.certs = <<Cred(ContentVer(AltContent))>>]_vars

ForClientCarriesFileCredential ==
    [][\A c \in Callers :
          (/\ callers[c].pc = "idle"
           /\ callers'[c].pc = "ret"
           /\ callers'[c].op = "ForClient"
           /\ certFile # ""
           /\ keyFile # ""
           /\ X509KeyPair(ReadFile(certFile), ReadFile(keyFile)) # Nil)
              => callers'[c].cfg.certs # <<>>]_vars

\* C20: the flag starts false, only a SetInsecureSkipVerify call changes it,
\* such a call stores its argument, and a configuration ForClient returns
\* carries the flag as it stands at the call.
SetterCall(c, op) ==
    callers[c].pc = "idle" /\ callers'[c].pc = "ret" /\ callers'[c].op = op

SkipVerifyFollowsSetter ==
    /\ insecure = FALSE
    /\ [][/\ insecure' # insecure =>
                \E c \in Callers : SetterCall(c, "SetInsecureSkipVerify")
          /\ \A c \in Callers :
                /\ SetterCall(c, "SetInsecureSkipVerify") =>
                       insecure' = callers'[c].arg.skip
                /\ SetterCall(c, "ForClient") =>
                       callers'[c].cfg.insecure = insecure]_vars

\* The application holds a ForClient configuration that skips verification,
\* and after SetInsecureSkipVerify(false) ForClient has returned one that
\* does not.
SkipVerifySwitchedOff ==
    /\ issued.insecure
    /\ callers[1].pc = "ret"
    /\ callers[1].op = "ForClient"
    /\ ~callers[1].cfg.insecure

\* C21: a configuration a ForServer call has returned has MinVersion TLS 1.2,
\* points ClientCAs at the manager's pool, carries the policy AuthType gives
\* for the client-auth value in force, and carries the credential the cell
\* holds (nothing when the cell is empty), not one of an earlier call.
ForServerCarriesCurrentState ==
    \A c \in Callers :
        (callers[c].pc = "ret" /\ callers[c].op = "ForServer" /\ callers[c].res = "ok")
            => /\ callers[c].cfg.minVersion = VersionTLS12
               /\ callers[c].cfg.clientCAs = PoolRef
               /\ callers[c].cfg.auth =
                      (IF clientAuth \in 0..RequireAndVerifyClientCert
                       THEN clientAuth ELSE 0)
               /\ callers[c].cfg.certs = (IF cert = Nil THEN <<>> ELSE <<cert>>)

\* The application holds a ForServer configuration with version 1's
\* credential and a later ForServer call has returned version 2's, with the
\* policy set in between.
LaterCallSeesNewCell ==
    /\ issued.certs = <<Cred(1)>>
    /\ issued.auth = 0
    /\ callers[1].pc = "ret"
    /\ callers[1].op = "ForServer"
    /\ callers[1].cfg.certs = <<Cred(2)>>
    /\ callers[1].cfg.auth = 2

\* The certificates among the first n blocks of a buffer, the position of
\* its first malformed certificate block (0 for none), and the step in which
\* caller c's call of op returns.
CertsUpTo(pemData, n) ==
    {pemData[k].der : k \in {j \in 1..n : pemData[j].type = "CERTIFICATE"
                                           /\ pemData[j].der # 0}}
FirstMalformed(pemData) ==
    IF \E k \in 1..Len(pemData) : pemData[k].type = "CERTIFICATE" /\ pemData[k].der = 0
    THEN CHOOSE k \in 1..Len(pemData) :
             /\ pemData[k].type = "CERTIFICATE" /\ pemData[k].der = 0
             /\ \A j \in 1..(k - 1) : ~(pemData[j].type = "CERTIFICATE" /\ pemData[j].der = 0)
    ELSE 0
Returns(c, op) ==
    callers[c].pc = "idle" /\ callers'[c].pc = "ret" /\ callers'[c].op = op

\* C22: AddCABytes takes the blocks in order: without a malformed
\* certificate block it succeeds and the pool gains exactly the buffer's
\* certificates (none for a buffer without certificate blocks); with one it
\* returns an error and the pool gains exactly the certificates before the
\* first malformed block.
AddCABytesStopsAtFirstMalformed ==
    [][\A c \in Callers :
          Returns(c, "AddCABytes") =>
              LET pemData == callers'[c].arg.pemData IN
              IF FirstMalformed(pemData) = 0
              THEN /\ callers'[c].res = "ok"
                   /\ ca' = ca \cup CertsUpTo(pemData, Len(pemData))
              ELSE /\ callers'[c].res = "error"
                   /\ ca' = ca \cup CertsUpTo(pemData, FirstMalformed(pemData) - 1)]_vars

\* C23: no step takes a certificate out of the pool, and an AddCABytes call
\* whose certificates are all in the pool leaves the pool, and with it every
\* verification, as it was.
PoolOnlyGrows ==
    [][/\ ca \subseteq ca'
       /\ \A c \in Callers :
              (Returns(c, "AddCABytes")
                 /\ CertsUpTo(callers'[c].arg.pemData, Len(callers'[c].arg.pemData))
                        \subseteq ca)
                => /\ ca' = ca
                   /\ \A probe \in Probes :
                          VerifyCertTrustedIn(ca', probe) = VerifyCertTrustedIn(ca, probe)]_vars

\* A failed add has returned, the pool still holds a certificate added
\* before it, and a monitor has reloaded the credential meanwhile.
PoolKeptThroughFailedAdd ==
    /\ callers[1].pc = "ret"
    /\ callers[1].op = "AddCABytes"
    /\ callers[1].res = "error"
    /\ callers[1].arg.pemData[1].der = 0
    /\ ca = {1}
    /\ cert = Cred(2)

\* The regular entries of a listing whose extension is .crt or .pem in any
\* case, and the certificates in a file.
Matching(entries) ==
    {k \in 1..Len(entries) : /\ entries[k].regular
                             /\ ToLower(Ext(entries[k].name)) \in {".crt", ".pem"}}
CertsOfFile(file) == CertsUpTo(file.pemData, Len(file.pemData))

\* C24: an AddCADir call adds nothing but certificates of the regular
\* .crt / .pem entries (any case), all of them when it succeeds, and a call
\* with the empty directory name succeeds and adds nothing.
AddCADirAddsMatchingFiles ==
    [][\A c \in Callers :
          Returns(c, "AddCADir") =>
              LET entries == callers'[c].arg.dir.entries
                  dir == callers'[c].arg.path
                  certs == UNION {CertsOfFile(entries[k].file) : k \in Matching(entries)}
              IN /\ dir = "" => (callers'[c].res = "ok" /\ ca' = ca)
                 /\ ca' \subseteq ca \cup certs
                 /\ (dir # "" /\ callers'[c].res = "ok") => ca' = ca \cup certs]_vars

\* A directory with b.PEM, a certificate in c.txt and a directory named
\* d.pem has been loaded: the pool has b.PEM's certificate only.
UpperCaseExtLoaded ==
    /\ callers[1].pc = "ret"
    /\ callers[1].op = "AddCADir"
    /\ callers[1].res = "ok"
    /\ Len(callers[1].arg.dir.entries) = 3
    /\ callers[1].arg.dir.entries[1] =
           [name |-> "c.txt", regular |-> TRUE,
            file |-> [readable |-> TRUE,
                      pemData |-> <<[type |-> "CERTIFICATE", der |-> 1]>>]]
    /\ callers[1].arg.dir.entries[2] =
           [name |-> "b.PEM", regular |-> TRUE,
            file |-> [readable |-> TRUE,
                      pemData |-> <<[type |-> "CERTIFICATE", der |-> 2]>>]]
    /\ callers[1].arg.dir.entries[3].name = "d.pem"
    /\ ~callers[1].arg.dir.entries[3].regular
    /\ ca = {2}

\* The matching entries of a listing whose file AddCAFile fails on.
Failing(dir, entries) ==
    {k \in Matching(entries) :
         AddCAFileTo({}, Join(dir, entries[k].name), entries[k].file).err}
First(S) == CHOOSE k \in S : \A j \in S : k <= j

\* C25: an AddCADir call on a readable directory fails exactly when a
\* matching file fails to load; its error names the path of the first such
\* file, the certificates of the matching files before it are in the pool,
\* and nothing of the files after it is.
AddCADirFailsFast ==
    [][\A c \in Callers :
          (Returns(c, "AddCADir") /\ callers'[c].arg.path # ""
             /\ callers'[c].arg.dir.readable) =>
              LET entries == callers'[c].arg.dir.entries
                  dir == callers'[c].arg.path
                  failing == Failing(dir, entries)
              IN IF failing = {} THEN callers'[c].res = "ok"
                 ELSE /\ callers'[c].res = "error"
                      /\ callers'[c].errAt = Join(dir, entries[First(failing)].name)
                      /\ ca \cup UNION {CertsOfFile(entries[k].file) :
                                           k \in {j \in Matching(entries) : j < First(failing)}}
                            \subseteq ca'
                      /\ ca' \subseteq
                            ca \cup UNION {CertsOfFile(entries[k].file) :
                                              k \in {j \in Matching(entries) : j <= First(failing)}}]_vars

\* The second of three certificate files was unreadable: the first one's
\* certificate is in the pool, the third one's is not, the error names the
\* second.
StoppedAtSecondFile ==
    /\ callers[1].pc = "ret"
    /\ callers[1].op = "AddCADir"
    /\ callers[1].res = "error"
    /\ callers[1].errAt = "ca/b.PEM"
    /\ Len(callers[1].arg.dir.entries) = 3
    /\ Matching(callers[1].arg.dir.entries) = {1, 2, 3}
    /\ CertsOfFile(callers[1].arg.dir.entries[1].file) = {1}
    /\ CertsOfFile(callers[1].arg.dir.entries[3].file) = {2}
    /\ ca = {1}

\* C26: a VerifyCertTrusted call given one PEM certificate succeeds when
\* the certificate chains to a certificate of the pool and fails when it
\* chains to none.
VerifyFollowsPool ==
    \A c \in Callers :
        (/\ callers[c].pc = "ret"
         /\ callers[c].op = "VerifyCertTrusted"
         /\ callers[c].arg.probe.enc = "PEM"
         /\ Len(callers[c].arg.probe.certs) = 1)
            => (callers[c].res = "ok" <=> callers[c].arg.probe.certs[1] \in ca)

\* C27: a constructor call asking for the platform's anchors returns a
\* manager with an empty pool whenever the platform gives none (an empty
\* pool, no pool, or an error), and a call not asking for them always
\* returns a manager with an empty pool.
ConstructionSurvivesNoAnchors ==
    /\ (ctor.useSystemCA /\ (ctor.sys.err \/ ctor.sys.nil \/ ctor.sys.anchors = {}))
           => (ctor.res = "ok" /\ ctor.pool = {})
    /\ ~ctor.useSystemCA => (ctor.res = "ok" /\ ctor.pool = {})

\* C28: the step in which fsnotify.NewWatcher fails ends the call normally
\* with the configuration built so far, which carries the cell's
\* credential; the cell, the watcher field and the monitors are as before,
\* so no monitor runs for it.
WatcherFailureDegrades ==
    [][\A c \in Callers :
          (callers[c].pc = "sw_new" /\ callers'[c].pc = "ret" /\ Created' = Created)
             => /\ callers'[c].res = "ok"
                /\ callers'[c].cfg = callers[c].cfg
                /\ callers'[c].cfg.certs = (IF cert = Nil THEN <<>> ELSE <<cert>>)
                /\ cert' = cert
                /\ watcher' = 0
                /\ mon' = mon]_vars

\* ForServer has returned the startup credential of the configured files
\* although no watcher was ever created.
ServedWithoutWatcher ==
    /\ callers[1].pc = "ret"
    /\ callers[1].op = ServerOp
    /\ callers[1].res = "ok"
    /\ callers[1].cfg.certs = <<Cred(1)>>
    /\ certFile = CertPath
    /\ keyFile = KeyPath
    /\ cert = Cred(1)
    /\ watcher = 0
    /\ Created = {}

\* C29: a client-auth value outside the five policies, given as a string
\* to the documented switch or as a TLSClientAuth to SetClientAuth /
\* SetClientAuthType, is answered with an error, and a server configuration
\* carries the policy none only when none is the policy that was set.
UnrecognisedClientAuthRejected ==
    \A c \in Callers :
        /\ (/\ callers[c].pc = "ret"
            /\ callers[c].op = "ConfigureClientAuth"
            /\ callers[c].arg.str \notin {"none", "request", "require", "verify",
                                          "requireverify"})
               => callers[c].res = "error"
        /\ (/\ callers[c].pc = "ret"
            /\ callers[c].op = "SetClientAuth"
            /\ callers[c].arg.auth \notin 0..RequireAndVerifyClientCert)
               => callers[c].res = "error"
        /\ (/\ callers[c].pc = "ret"
            /\ callers[c].op = ServerOp
            /\ callers[c].cfg # NoCfg
            /\ callers[c].cfg.auth = 0)
               => clientAuth = 0

\* C30: a monitor goes to the debounce sleep only from taking an event
\* named as the stored certificate or key path with the operation write,
\* create or rename; it starts reading the files only from that sleep; and
\* the step in which it takes any other event (and does not exit) leaves the
\* cell as it was and the monitor waiting for the next event.
ReloadOnlyForCertOrKeyEvents ==
    [][\A i \in Watchers :
          /\ (mon[i].pc # "sleep" /\ mon'[i].pc = "sleep")
                => /\ mon[i].pc = "select"
                   /\ mon[i].q # <<>>
                   /\ Head(mon[i].q).name \in {certFile, keyFile}
                   /\ Head(mon[i].q).op \in {"Write", "Create", "Rename"}
          /\ (mon[i].pc # "rdkey" /\ mon'[i].pc = "rdkey") => mon[i].pc = "sleep"
          /\ (/\ mon[i].pc = "select"
              /\ mon[i].q # <<>>
              /\ mon'[i].q = Tail(mon[i].q)
              /\ mon'[i].pc # "exited"
              /\ ~(/\ Head(mon[i].q).name \in {certFile, keyFile}
                   /\ Head(mon[i].q).op \in {"Write", "Create", "Rename"}))
                => /\ cert' = cert
                   /\ mon'[i].pc \in {"select", "loop"}]_vars

\* The only monitor there has been took an event that replaced neither
\* file and waits again, the files and the cell being those of the start.
OtherEventIgnored ==
    /\ disk = [cert |-> ValidRank(1), key |-> ValidRank(1), touched |-> 1]
    /\ Created = {1}
    /\ mon[1].pc = "select"
    /\ mon[1].q = <<>>
    /\ cert = Cred(1)

\* C31: no VerifyCertTrusted call reads the pool in a state in which
\* another goroutine is inside t.ca.AddCert.
PoolReadsExcludeWrites ==
    [][\A c \in Callers :
          Returns(c, "VerifyCertTrusted")
             => \A d \in Callers \ {c} : callers[d].pc # "ab_add"]_vars

\* C32: once the cell holds a credential, no step of a ForServer or
\* ForClient call changes or stores into the cell: no caller completes an
\* initial load with a store, and every step of a caller inside either
\* call leaves the cell as it was.
CallsLeaveCellAfterFirstLoad ==
    [][cert # Nil =>
          \A c \in Callers :
              /\ ~(callers[c].pc = "rc_pair" /\ callers'[c].pc = "fs_load")
              /\ (/\ callers[c] # callers'[c]
                  /\ callers[c].pc \in {"rc_cert", "rc_key", "rc_pair", "fs_load",
                                        "sw_check", "sw_new"})
                     => cert' = cert
              /\ Returns(c, "ForClient") => cert' = cert]_vars

\* C33: the version of the credential in the cell never decreases.
CellNeverGoesBack ==
    [][(cert # Nil /\ cert' # Nil) => cert'.cert >= cert.cert]_vars

\* C34: while no Close is called, at most one watcher is ever created and
\* at most one monitor goroutine is ever started.
AtMostOneWatcher == Cardinality(Created) <= 1

\* C35: no Close call closes a channel that is already closed: no step of
\* close(t.done) finds the channel among the closed ones, and no Close call
\* ends in the panic.
DoneClosedOnce ==
    [][\A c \in Callers :
          (callers[c].pc = "cl_close" /\ callers'[c] # callers[c])
             => /\ done \notin closed
                /\ callers'[c].res # "panic"]_vars

\* C36: a monitor goroutine of the TLS type whose done channel Close has
\* closed is on its way out whatever GetTLSConfig calls follow: it is never
\* waiting in its select on another done channel, one that is still open
\* and was made for a later goroutine, where only a further Close ends it.
ClosedMonitorWaitsOnClosedChannel ==
    \A i \in Watchers :
        (kind = "tls" /\ i \in closed /\ mon[i].pc = "select")
            => mon[i].dch \in closed

\* C37: with the calls made one after the other, a ForServer / GetTLSConfig
\* call whose initial load fails ends in the panic, with the cell still
\* empty, t.watcher nil and no watcher created; a call whose initial load
\* succeeds stores the pair it read and goes on to copy the cell and, no
\* watcher being set, to startWatcher.
FailedInitialLoadPanics ==
    [][\A c \in Callers :
          /\ (callers[c].pc = "rc_pair" /\ callers'[c] # callers[c])
                => IF callers[c].pair = Nil
                   THEN /\ callers'[c].pc = "ret"
                        /\ callers'[c].res = "panic"
                        /\ cert' = Nil
                        /\ watcher' = 0
                        /\ Created' = {}
                   ELSE /\ cert' = callers[c].pair
                        /\ callers'[c].pc = "fs_load"
          /\ (callers[c].pc = "fs_load" /\ callers'[c] # callers[c] /\ cert # Nil)
                => /\ callers'[c].pc = "sw_check"
                   /\ callers'[c].cfg.certs = <<cert>>
          /\ (callers[c].pc = "sw_check" /\ callers'[c] # callers[c] /\ watcher = 0)
                => callers'[c].pc = "sw_new"]_vars

\* The call has ended in the panic of a failed initial load: the files are
\* configured, the cell is empty and there is no watcher.
InitialLoadPanicked ==
    /\ FilesConfigured
    /\ callers[1].pc = "ret"
    /\ callers[1].op = ServerOp
    /\ callers[1].res = "panic"
    /\ cert = Nil
    /\ watcher = 0
    /\ Created = {}

\* C38: a ForClient call is one step from the call to its return, and that
\* step changes nothing of the manager: not the cell, not the paths, not
\* t.watcher, the done channel or the monitor goroutines, not the pool, the
\* policy or the flag, and not the files.
ForClientChangesNothing ==
    [][\A c \in Callers :
          (/\ callers'[c] # callers[c]
           /\ callers'[c].pc = "ret"
           /\ callers'[c].op = "ForClient")
             => /\ callers[c].pc = "idle"
                /\ UNCHANGED <<cert, certFile, keyFile, watcher, done, closed, mon,
                               ca, clientAuth, insecure, disk, ctor>>]_vars

\* ForClient has returned on a manager whose files are configured and valid
\* on disk while nothing is loaded and nothing is watched: the cell is
\* still empty and there is still no watcher.
ForClientLeftCellEmpty ==
    /\ FilesConfigured
    /\ disk.cert = ValidRank(1)
    /\ disk.key = ValidRank(1)
    /\ callers[1].pc = "ret"
    /\ callers[1].op = "ForClient"
    /\ callers[1].res = "ok"
    /\ callers[1].cfg.certs = <<>>
    /\ cert = Nil
    /\ watcher = 0
    /\ Created = {}

\* C39: a VerifyCertTrusted call returns nil only for an input that holds
\* at least one certificate, each of them chaining to a certificate of the
\* pool.
TrustedOnlyWithCertificates ==
    \A c \in Callers :
        (/\ callers[c].pc = "ret"
         /\ callers[c].op = "VerifyCertTrusted"
         /\ callers[c].res = "ok")
            => /\ Len(callers[c].arg.probe.certs) >= 1
               /\ \A k \in 1..Len(callers[c].arg.probe.certs) :
                      callers[c].arg.probe.certs[k] \in ca

\* C40: AuthType returns the value it is called on when that is one of the
\* five policies and none (0) for every other value; String returns the name
\* of the policy for the five policies, five different names, and "none" for
\* every other value.
PolicyMethodsTotal ==
    \A c \in Callers :
        /\ (callers[c].pc = "ret" /\ callers[c].op = "AuthType")
              => callers[c].cfg.auth =
                    IF callers[c].arg.auth \in 0..RequireAndVerifyClientCert
                    THEN callers[c].arg.auth ELSE 0
        /\ (callers[c].pc = "ret" /\ callers[c].op = "String")
              => callers[c].arg.str =
                    CASE callers[c].arg.auth = 0 -> "none"
                      [] callers[c].arg.auth = 1 -> "request"
                      [] callers[c].arg.auth = 2 -> "require"
                      [] callers[c].arg.auth = 3 -> "verify"
                      [] callers[c].arg.auth = RequireAndVerifyClientCert -> "requireverify"
                      [] OTHER -> "none"

\* AuthType has returned none for the first value above the five policies,
\* and String the last name for the last policy.
PolicyMethodsAtTheEdge ==
    /\ callers[1].pc = "ret"
    /\ callers[1].op = "AuthType"
    /\ callers[1].arg.auth = RequireAndVerifyClientCert + 1
    /\ callers[1].cfg.auth = 0
    /\ callers[2].pc = "ret"
    /\ callers[2].op = "String"
    /\ callers[2].arg.auth = RequireAndVerifyClientCert
    /\ callers[2].arg.str = "requireverify"

====
